---------------------------- MODULE Spec2Model ----------------------------
(***************************************************************************)
(* A model of the ArangoDB DocManager of mongo-connector                   *)
(* (src/mongo_connector/doc_managers/arango3_doc_manager.py).              *)
(*                                                                         *)
(* Python strings that the code inspects (document ids, keys, namespaces)  *)
(* are sequences of one-character strings, so that str(), the test for a   *)
(* '.' and split('.', 1) are computed as the code computes them.           *)
(*                                                                         *)
(* The target store is the ArangoDB server seen through python-arango 3.x: *)
(*   databases    the set of database names (the meta database apart)      *)
(*   collections  (db, collection) |-> (_key |-> document body)            *)
(*   meta         the collection mongodb_meta/mongodb_data:                *)
(*                _key |-> [ns, ts]; _key is the collection's primary key, *)
(*                so it holds at most one record per _key                  *)
(* A document body is a function from field names to values; the system    *)
(* attributes _id and _rev that the server generates are left out (the     *)
(* tests strip them before comparing), and _key is the index of the body.  *)
(***************************************************************************)
EXTENDS Integers, Sequences, FiniteSets, TLC

VARIABLES databases, collections, meta, chunk_size, last, out, lastWrite

vars == <<databases, collections, meta, chunk_size, last, out, lastWrite>>

(***************************************************************************)
(* Bounds of the model.                                                    *)
(***************************************************************************)
\* timestamps are 1..MaxTs
MaxTs == 2
\* a bulk_upsert is fed at most MaxBulk documents
MaxBulk == 2
\* the configured chunk size is in 1..MaxChunk
MaxChunk == 2
\* the key encoder is applied to every string of at most MaxLen characters
MaxLen == 4
\* ... and to the integers 0..MaxInt
MaxInt == 11

(***************************************************************************)
(* Strings and source ids.                                                 *)
(***************************************************************************)
Range(s) == {s[i] : i \in 1..Len(s)}

Dot == "."

\* The characters source-id strings are built from.
Alphabet == {"a", "1", Dot}

RECURSIVE StringsUpTo(_)
StringsUpTo(n) ==
    IF n = 0 THEN {<<>>}
    ELSE LET shorter == StringsUpTo(n - 1)
         IN  shorter \cup {Append(s, c) : s \in {t \in shorter : Len(t) = n - 1},
                                          c \in Alphabet}

\* A source id is a tagged value: a string or a number.
StrId(s) == [tag |-> "str", s |-> s]
IntId(n) == [tag |-> "int", n |-> n]

DigitChar(d) == <<"0", "1", "2", "3", "4", "5", "6", "7", "8", "9">>[d + 1]

RECURSIVE Digits(_)
Digits(n) == IF n < 10 THEN <<DigitChar(n)>>
             ELSE Append(Digits(n \div 10), DigitChar(n % 10))

\* str(doc_id)
Str(doc_id) == IF doc_id.tag = "int" THEN Digits(doc_id.n) ELSE doc_id.s

\* An encoder that always appends the separator.
pre_process_id_always_append(doc_id) == Str(doc_id) \o <<Dot>>

\* DocManager.pre_process_id
pre_process_id(doc_id) ==
    LET s == Str(doc_id)
    IN  IF Dot \notin Range(s) THEN s \o <<Dot>> ELSE s


(***************************************************************************)
(* Inputs.                                                                 *)
(***************************************************************************)
\* "d.x" and "d.y": two collections of one source database.
NsX == <<"d", Dot, "x">>
NsY == <<"d", Dot, "y">>
Namespaces == {NsX, NsY}

\* The source ids of the documents: a string and a number.
Ids == {StrId(<<"a">>), IntId(1)}
\* The source ids of the documents fed to bulk_upsert by SpecBulk: one more
\* string, which differs from the first in a trailing separator.
BulkIds == Ids \cup {StrId(<<"a", Dot>>)}

Timestamps == 1..MaxTs

\* Document bodies (the document without its _id) handed to upsert.
John == [name |-> "John"]
UpsertBodies == {John}

\* A source document: the dict {"_id": id, **body}.
Document(id, body) == [id |-> id, body |-> body]

\* update_spec dicts: partial updates and one wholesale replacement.
SetCity      == [s \in {"$set"} |-> [city |-> "New York"]]
SetCityAgain == [s \in {"$set"} |-> [city |-> "Chicago"]]
UnsetCity    == [s \in {"$unset"} |-> [city |-> 1]]
Replacement  == [name |-> "John"]
UpdateSpecs == {SetCity, SetCityAgain, UnsetCity, Replacement}

\* The finite document sequences fed to bulk_upsert.
RECURSIVE IdSeqsUpTo(_, _)
IdSeqsUpTo(ids, n) ==
    IF n = 0 THEN {<<>>}
    ELSE LET shorter == IdSeqsUpTo(ids, n - 1)
         IN  shorter \cup {Append(s, i) : s \in {t \in shorter : Len(t) = n - 1},
                                          i \in ids}
DocumentSeqs(ids) == {[k \in 1..Len(seq) |-> Document(seq[k], John)] :
                         seq \in IdSeqsUpTo(ids, MaxBulk)}
BulkInputs == DocumentSeqs(Ids)

(***************************************************************************)
(* The target store.                                                       *)
(***************************************************************************)
Store == [dbs |-> databases, colls |-> collections, meta |-> meta]
EmptyStore == [dbs |-> {}, colls |-> <<>>, meta |-> <<>>]

\* The outcome of a call: the store it leaves and how it ended ("ok", or
\* the name of the exception the caller sees).
Outcome(st, res) == [st |-> st, res |-> res]

Without(f, k) == [x \in DOMAIN f \ {k} |-> f[x]]
With(f, k, v) == [x \in DOMAIN f \cup {k} |-> IF x = k THEN v ELSE f[x]]

\* The metadata record as the store returns it.
MetaRecord(m, k) == [key |-> k, ns |-> m[k].ns, ts |-> m[k].ts]
MetaRecords(m) == {MetaRecord(m, k) : k \in DOMAIN m}

RECURSIVE FirstDot(_, _)
FirstDot(s, i) == IF i > Len(s) THEN 0
                  ELSE IF s[i] = Dot THEN i ELSE FirstDot(s, i + 1)

\* DocManager._db_and_collection: namespace.split('.', 1)
_db_and_collection(namespace) ==
    LET i == FirstDot(namespace, 1)
    IN  IF i = 0 THEN <<namespace>>
        ELSE <<SubSeq(namespace, 1, i - 1),
               SubSeq(namespace, i + 1, Len(namespace))>>

\* The (db, collection) pair that holds the documents of a namespace.
Target(namespace) ==
    <<_db_and_collection(namespace)[1], _db_and_collection(namespace)[2]>>

\* DocManager.check_if_database_exists
check_if_database_exists(st, database) == database \in st.dbs

\* DocManager.check_if_collection_exists
check_if_collection_exists(st, database, coll) ==
    <<database, coll>> \in DOMAIN st.colls

\* DocManager.handle_command, the branch taken for {"create": coll}: the
\* database and the collection are created when the check finds them absent.
\* CommandHelper() is built without a namespace configuration and maps every
\* name to itself.
handle_command_create(st, db, coll) ==
    LET st1 == IF check_if_database_exists(st, db) THEN st
               ELSE [st EXCEPT !.dbs = @ \cup {db}]
    IN  IF check_if_collection_exists(st1, db, coll) THEN st1
        ELSE [st1 EXCEPT !.colls = With(@, <<db, coll>>, <<>>)]

(***************************************************************************)
(* upsert.                                                                 *)
(***************************************************************************)
\* A metadata write that keeps one record, the latest, in the whole index.
upsert_meta_single_record(st, doc_id, namespace, timestamp) ==
    Outcome([st EXCEPT !.meta = [k \in {doc_id} |-> [ns |-> namespace, ts |-> timestamp]]],
            "ok")

\* A metadata write that always inserts.
upsert_meta_insert_only(st, doc_id, namespace, timestamp) ==
    IF doc_id \in DOMAIN st.meta THEN Outcome(st, "OperationFailed")
    ELSE Outcome([st EXCEPT !.meta = With(@, doc_id, [ns |-> namespace, ts |-> timestamp])],
                 "ok")

\* upsert, the metadata write: meta_collection.find({_key, ns}) decides
\* between replace and insert.  insert of a _key the collection already
\* holds (under another ns) is rejected by the store with a
\* DocumentInsertError, which wrap_exceptions turns into OperationFailed.
upsert_meta(st, doc_id, namespace, timestamp) ==
    LET record == [ns |-> namespace, ts |-> timestamp]
        found  == doc_id \in DOMAIN st.meta /\ st.meta[doc_id].ns = namespace
    IN  IF found
        THEN Outcome([st EXCEPT !.meta = With(@, doc_id, record)], "ok")
        ELSE IF doc_id \in DOMAIN st.meta
             THEN Outcome(st, "OperationFailed")
             ELSE Outcome([st EXCEPT !.meta = With(@, doc_id, record)], "ok")

\* upsert, the document write: coll.has(doc_id) decides between replace and
\* insert; either way the body is stored under doc_id.
upsert_doc(st, target, doc_id, body) ==
    Outcome([st EXCEPT !.colls[target] = With(@, doc_id, body)], "ok")

\* DocManager.upsert
upsert(st, doc, namespace, timestamp) ==
    LET target == Target(namespace)
        st1    == handle_command_create(st, target[1], target[2])
        doc_id == pre_process_id(doc.id)
        m      == upsert_meta(st1, doc_id, namespace, timestamp)
    IN  IF m.res # "ok" THEN m
        ELSE upsert_doc(m.st, target, doc_id, doc.body)

(***************************************************************************)
(* update.                                                                 *)
(***************************************************************************)
SetFields(doc, fields) ==
    [f \in DOMAIN doc \cup DOMAIN fields |->
        IF f \in DOMAIN fields THEN fields[f] ELSE doc[f]]

UnsetFields(doc, fields) == [f \in DOMAIN doc \ DOMAIN fields |-> doc[f]]

\* DocManagerBase.apply_update of mongo-connector, which DocManager.apply_update
\* calls for a spec with "$set" or "$unset": the fields of "$set" are assigned,
\* then the fields of "$unset" are deleted.  Deleting a field the document does
\* not have raises UpdateDoesNotApply, or is skipped with a warning when the
\* source is a MongoDB older than 2.6: both outcomes are kept.
base_apply_update(doc, update_spec) ==
    LET toSet    == IF "$set" \in DOMAIN update_spec THEN update_spec["$set"] ELSE <<>>
        toUnset  == IF "$unset" \in DOMAIN update_spec THEN update_spec["$unset"] ELSE <<>>
        afterSet == SetFields(doc, toSet)
        applied  == [ok |-> TRUE, doc |-> UnsetFields(afterSet, toUnset)]
    IN  IF DOMAIN toUnset \subseteq DOMAIN afterSet
        THEN {applied}
        ELSE {applied, [ok |-> FALSE, doc |-> doc]}

\* DocManager.apply_update
apply_update(doc, update_spec) ==
    IF "$set" \notin DOMAIN update_spec /\ "$unset" \notin DOMAIN update_spec
    THEN {[ok |-> TRUE, doc |-> update_spec]}
    ELSE base_apply_update(doc, update_spec)

\* update, the metadata write: the record found by {_key, ns} is replaced.
update_meta(st, doc_id, namespace, timestamp) ==
    IF doc_id \in DOMAIN st.meta /\ st.meta[doc_id].ns = namespace
    THEN [st EXCEPT !.meta = With(@, doc_id, [ns |-> namespace, ts |-> timestamp])]
    ELSE st

\* DocManager.update: the set of its possible outcomes.  coll.find on a
\* collection the store does not have raises DocumentGetError, which
\* wrap_exceptions lets through.
update(st, document_id, update_spec, namespace, timestamp) ==
    LET doc_id == pre_process_id(document_id)
        target == Target(namespace)
        st1    == update_meta(st, doc_id, namespace, timestamp)
    IN  IF target \notin DOMAIN st1.colls
        THEN {Outcome(st1, "DocumentGetError")}
        ELSE IF doc_id \notin DOMAIN st1.colls[target]
        THEN {Outcome(st1, "ok")}
        ELSE {IF u.ok
              THEN upsert(st1, Document(StrId(doc_id), u.doc), namespace, timestamp)
              ELSE Outcome(st1, "UpdateDoesNotApply")
                 : u \in apply_update(st1.colls[target][doc_id], update_spec)}

(***************************************************************************)
(* bulk_upsert.                                                            *)
(***************************************************************************)
\* bulk_upsert.iterate_chunks: the chunks the generator yields, in order.
\* pos is the next document next(docs) returns and yielded the chunks yielded
\* so far.  One pass of the while loop: the for loop pulls documents until it
\* has chunk_size of them (i reaches the end of range(chunk_size)) or next()
\* raises StopIteration.  A for loop that runs to its end yields and the while
\* loop goes round again; one that meets StopIteration clears more_chunks and
\* yields only if i > 0.
RECURSIVE chunk_pass(_, _, _, _)
chunk_pass(docs, pos, size, yielded) ==
    LET left   == Len(docs) - pos + 1
        i      == IF left < size THEN left ELSE size
        bulk   == SubSeq(docs, pos, pos + i - 1)
    IN  IF left >= size
        THEN chunk_pass(docs, pos + i, size, Append(yielded, bulk))
        ELSE IF i > 0 THEN Append(yielded, bulk) ELSE yielded

iterate_chunks(docs, size) == chunk_pass(docs, 1, size, <<>>)

\* The _key of each document of a chunk: doc.update({"_key": doc_id}).
ChunkKeys(bulk) == {pre_process_id(bulk[i].id) : i \in 1..Len(bulk)}

\* The last document of the chunk stored under a key.
LastWithKey(bulk, key) ==
    bulk[CHOOSE i \in 1..Len(bulk) :
            /\ pre_process_id(bulk[i].id) = key
            /\ \A j \in (i + 1)..Len(bulk) : pre_process_id(bulk[j].id) # key]

\* import_bulk(documents, on_duplicate="replace") into a document collection,
\* with the _id popped and _key set to the encoded id: each document is stored
\* under its _key, replacing what the collection or the chunk held there.
import_docs(coll, bulk) ==
    [key \in DOMAIN coll \cup ChunkKeys(bulk) |->
        IF key \in ChunkKeys(bulk) THEN LastWithKey(bulk, key).body ELSE coll[key]]

\* import_bulk(documents, on_duplicate="replace") of the chunk's metadata.
import_meta(m, bulk, namespace, timestamp) ==
    [key \in DOMAIN m \cup ChunkKeys(bulk) |->
        IF key \in ChunkKeys(bulk) THEN [ns |-> namespace, ts |-> timestamp]
        ELSE m[key]]

\* One pass of the for loop over the chunks: the documents, then the metadata.
import_chunk(st, bulk, namespace, timestamp) ==
    [st EXCEPT !.colls[Target(namespace)] = import_docs(@, bulk),
               !.meta = import_meta(@, bulk, namespace, timestamp)]

RECURSIVE import_chunks(_, _, _, _, _)
import_chunks(st, chunks, namespace, timestamp, k) ==
    IF k > Len(chunks) THEN st
    ELSE import_chunks(import_chunk(st, chunks[k], namespace, timestamp),
                       chunks, namespace, timestamp, k + 1)

\* DocManager.bulk_upsert
bulk_upsert(st, docs, namespace, timestamp, size) ==
    LET target == Target(namespace)
        st1    == handle_command_create(st, target[1], target[2])
    IN  Outcome(import_chunks(st1, iterate_chunks(docs, size), namespace, timestamp, 1),
                "ok")

(***************************************************************************)
(* remove.                                                                 *)
(***************************************************************************)
\* A remove that deletes the metadata record and leaves the document.
remove_metadata_only(st, document_id, namespace, timestamp) ==
    Outcome([st EXCEPT !.meta = Without(@, pre_process_id(document_id))], "ok")

\* collection.delete(key) of python-arango: ignore_missing defaults to False,
\* so a key the collection does not hold raises DocumentDeleteError, which
\* wrap_exceptions lets through.
remove(st, document_id, namespace, timestamp) ==
    LET doc_id == pre_process_id(document_id)
        target == Target(namespace)
    IN  IF doc_id \notin DOMAIN st.meta
        THEN Outcome(st, "DocumentDeleteError")
        ELSE LET st1 == [st EXCEPT !.meta = Without(@, doc_id)]
             IN  IF target \notin DOMAIN st1.colls
                    \/ doc_id \notin DOMAIN st1.colls[target]
                 THEN Outcome(st1, "DocumentDeleteError")
                 ELSE Outcome([st1 EXCEPT !.colls[target] = Without(@, doc_id)], "ok")

(***************************************************************************)
(* search and get_last_doc.                                                *)
(***************************************************************************)
\* The limit of find_in_range in python-arango 3.x, which search leaves at
\* its default: find_in_range(field, lower, upper, offset=0, limit=100,
\* inclusive=True).
find_in_range_limit == 100

RECURSIVE SubsetsOfSize(_, _)
SubsetsOfSize(S, k) ==
    IF k = 0 THEN {{}}
    ELSE UNION {{T \cup {x} : T \in SubsetsOfSize(S \ {x}, k - 1)} : x \in S}

\* meta_coll.find_in_range("_ts", start_ts, end_ts): the possible results, each
\* the set of records the cursor yields.  The query is
\*   FILTER doc._ts >= lower && doc._ts <= upper LIMIT 0, 100
\* in no particular order, so any 100 of the records in range may come back.
find_in_range(m, lower, upper) ==
    LET hits  == {r \in MetaRecords(m) : lower <= r.ts /\ r.ts <= upper}
        extra == Cardinality(hits) - find_in_range_limit
    IN  IF extra <= 0 THEN {hits}
        ELSE {hits \ dropped : dropped \in SubsetsOfSize(hits, extra)}

\* DocManager.search: the possible sets of yielded records.
search(st, start_ts, end_ts) == find_in_range(st.meta, start_ts, end_ts)

\* DocManager.get_last_doc: FOR doc IN mongodb_data SORT doc._ts DESC LIMIT 1.
\* The possible results, {} standing for None; the store picks among records
\* with the same _ts.
get_last_doc(st) ==
    IF DOMAIN st.meta = {} THEN {{}}
    ELSE {{r} : r \in {x \in MetaRecords(st.meta) :
                          \A y \in MetaRecords(st.meta) : y.ts <= x.ts}}

(***************************************************************************)
(* The calls, issued one at a time.                                        *)
(*   last       the latest call: its name and how it ended                 *)
(*   out        what the latest call returned (a set of metadata records)  *)
(*   lastWrite  (ns, key) |-> the timestamp of the latest successful write *)
(*              of that document; kept by SpecOk only                      *)
(***************************************************************************)
\* mongo_connector.constants.DEFAULT_MAX_BULK, the default of chunk_size.
DEFAULT_MAX_BULK == 1000

\* DocManager.__init__ on a fresh server: the meta database and its
\* collection are created empty.
Init ==
    /\ databases = {}
    /\ collections = <<>>
    /\ meta = <<>>
    /\ chunk_size = DEFAULT_MAX_BULK
    /\ last = [op |-> "none", res |-> "ok"]
    /\ out = {}
    /\ lastWrite = <<>>

Apply(o) ==
    /\ databases' = o.st.dbs
    /\ collections' = o.st.colls
    /\ meta' = o.st.meta

DocPresent(colls, namespace, key) ==
    Target(namespace) \in DOMAIN colls /\ key \in DOMAIN colls[Target(namespace)]

Upsert(doc, namespace, timestamp) ==
    LET o == upsert(Store, doc, namespace, timestamp)
    IN  /\ Apply(o)
        /\ last' = [op |-> "upsert", res |-> o.res]
        /\ out' = {}
        /\ UNCHANGED chunk_size

Update(document_id, update_spec, namespace, timestamp) ==
    \E o \in update(Store, document_id, update_spec, namespace, timestamp) :
        /\ Apply(o)
        /\ last' = [op |-> "update", res |-> o.res]
        /\ out' = {}
        /\ UNCHANGED chunk_size

BulkUpsert(docs, namespace, timestamp) ==
    LET o == bulk_upsert(Store, docs, namespace, timestamp, chunk_size)
    IN  /\ Apply(o)
        /\ last' = [op |-> "bulk_upsert", res |-> o.res]
        /\ out' = {}
        /\ UNCHANGED chunk_size

Remove(document_id, namespace, timestamp) ==
    LET o == remove(Store, document_id, namespace, timestamp)
    IN  /\ Apply(o)
        /\ last' = [op |-> "remove", res |-> o.res]
        /\ out' = {}
        /\ UNCHANGED chunk_size

Search(start_ts, end_ts) ==
    \E found \in search(Store, start_ts, end_ts) :
        /\ last' = [op |-> "search", res |-> "ok"]
        /\ out' = found
        /\ UNCHANGED <<databases, collections, meta, chunk_size>>

GetLastDoc ==
    \E found \in get_last_doc(Store) :
        /\ last' = [op |-> "get_last_doc", res |-> "ok"]
        /\ out' = found
        /\ UNCHANGED <<databases, collections, meta, chunk_size>>

Next ==
    \/ \E id \in Ids, body \in UpsertBodies, ns \in Namespaces, ts \in Timestamps :
          Upsert(Document(id, body), ns, ts) /\ UNCHANGED lastWrite
    \/ \E id \in Ids, spec \in UpdateSpecs, ns \in Namespaces, ts \in Timestamps :
          Update(id, spec, ns, ts) /\ UNCHANGED lastWrite
    \/ \E docs \in BulkInputs, ns \in Namespaces, ts \in Timestamps :
          BulkUpsert(docs, ns, ts) /\ UNCHANGED lastWrite
    \/ \E id \in Ids, ns \in Namespaces, ts \in Timestamps :
          Remove(id, ns, ts) /\ UNCHANGED lastWrite
    \/ \E start_ts \in Timestamps, end_ts \in Timestamps :
          Search(start_ts, end_ts) /\ UNCHANGED lastWrite
    \/ GetLastDoc /\ UNCHANGED lastWrite

\* Calls of any outcome, issued one at a time.
Spec == Init /\ [][Next]_vars

(***************************************************************************)
(* The runs in which every call completes successfully, with the write     *)
(* history of each document.                                               *)
(***************************************************************************)
RECURSIVE Written(_, _, _, _)
Written(w, keys, namespace, timestamp) ==
    IF keys = {} THEN w
    ELSE LET k == CHOOSE x \in keys : TRUE
         IN  Written(With(w, <<namespace, k>>, timestamp), keys \ {k},
                     namespace, timestamp)

Succeeded == last'.res = "ok"

UpsertOk ==
    \E id \in Ids, body \in UpsertBodies, ns \in Namespaces, ts \in Timestamps :
        /\ Upsert(Document(id, body), ns, ts)
        /\ Succeeded
        /\ lastWrite' = Written(lastWrite, {pre_process_id(id)}, ns, ts)

\* An update writes the document only when it finds it.
UpdateOk ==
    \E id \in Ids, spec \in UpdateSpecs, ns \in Namespaces, ts \in Timestamps :
        /\ Update(id, spec, ns, ts)
        /\ Succeeded
        /\ lastWrite' = IF DocPresent(collections, ns, pre_process_id(id))
                        THEN Written(lastWrite, {pre_process_id(id)}, ns, ts)
                        ELSE lastWrite

BulkUpsertOk ==
    \E docs \in BulkInputs, ns \in Namespaces, ts \in Timestamps :
        /\ BulkUpsert(docs, ns, ts)
        /\ Succeeded
        /\ lastWrite' = Written(lastWrite,
                                {pre_process_id(docs[k].id) : k \in 1..Len(docs)},
                                ns, ts)

RemoveOk ==
    \E id \in Ids, ns \in Namespaces, ts \in Timestamps :
        /\ Remove(id, ns, ts)
        /\ Succeeded
        /\ lastWrite' = Without(lastWrite, <<ns, pre_process_id(id)>>)

NextOk == UpsertOk \/ UpdateOk \/ BulkUpsertOk \/ RemoveOk

SpecOk == Init /\ [][NextOk]_vars

(***************************************************************************)
(* The key encoder alone, applied to two source ids at a time.             *)
(***************************************************************************)
EncoderInputs == {StrId(s) : s \in StringsUpTo(MaxLen)} \cup {IntId(n) : n \in 0..MaxInt}

\* The two ids handed to the encoder.
InitEnc ==
    /\ databases = {}
    /\ collections = <<>>
    /\ meta = <<>>
    /\ chunk_size = DEFAULT_MAX_BULK
    /\ last \in {[op |-> "input", res |-> "ok", ids |-> <<a, b>>] :
                    a \in EncoderInputs, b \in EncoderInputs}
    /\ out = {}
    /\ lastWrite = <<>>

PreProcessId ==
    /\ last.op = "input"
    /\ last' = [last EXCEPT !.op = "pre_process_id"]
    /\ out' = <<pre_process_id(last.ids[1]), pre_process_id(last.ids[2])>>
    /\ UNCHANGED <<databases, collections, meta, chunk_size, lastWrite>>

NextEnc == PreProcessId

SpecEnc == InitEnc /\ [][NextEnc]_vars

(***************************************************************************)
(* bulk_upsert under every configured chunk size.                          *)
(***************************************************************************)
InitBulk ==
    /\ databases = {}
    /\ collections = <<>>
    /\ meta = <<>>
    /\ chunk_size \in 1..MaxChunk
    /\ last = [op |-> "none", res |-> "ok"]
    /\ out = {}
    /\ lastWrite = <<>>

NextBulk ==
    \/ \E docs \in DocumentSeqs(BulkIds), ns \in Namespaces, ts \in Timestamps :
          BulkUpsert(docs, ns, ts) /\ UNCHANGED lastWrite
    \/ \E id \in BulkIds, ns \in Namespaces, ts \in Timestamps :
          Remove(id, ns, ts) /\ UNCHANGED lastWrite

SpecBulk == InitBulk /\ [][NextBulk]_vars

(***************************************************************************)
(* search over a large Metadata Index: one bulk load of documents with the *)
(* ids 0, 1, 2, ... into the empty index, one more document upserted in    *)
(* another namespace, and searches.                                        *)
(***************************************************************************)
\* the bulk load holds at most MaxRecords documents
MaxRecords == 100

Numbered(n) == [k \in 1..n |-> Document(IntId(k - 1), John)]

Load ==
    \E n \in 0..MaxRecords, ts \in Timestamps :
        /\ meta = <<>>
        /\ BulkUpsert(Numbered(n), NsX, ts)
        /\ UNCHANGED lastWrite

OneMore ==
    \E ts \in Timestamps :
        /\ pre_process_id(StrId(<<"a">>)) \notin DOMAIN meta
        /\ Upsert(Document(StrId(<<"a">>), John), NsY, ts)
        /\ UNCHANGED lastWrite

NextRange ==
    \/ Load
    \/ OneMore
    \/ \E start_ts \in Timestamps, end_ts \in Timestamps :
          Search(start_ts, end_ts) /\ UNCHANGED lastWrite

SpecRange == Init /\ [][NextRange]_vars

(***************************************************************************)
(* Properties.                                                             *)
(***************************************************************************)
KeysOf(colls, namespace) ==
    IF Target(namespace) \in DOMAIN colls THEN DOMAIN colls[Target(namespace)] ELSE {}

\* The metadata records for a key and a namespace.
RecordsFor(m, key, namespace) ==
    {r \in MetaRecords(m) : r.key = key /\ r.ns = namespace}

\* C1: after any sequence of successfully completed upsert, update,
\* bulk_upsert and remove calls, every document present in a target
\* collection has exactly one metadata record with its key and its namespace,
\* and the record's timestamp is that of the latest successful write of the
\* document.
C1_MetadataIndexInvariant ==
    \A ns \in Namespaces : \A key \in KeysOf(collections, ns) :
        /\ Cardinality(RecordsFor(meta, key, ns)) = 1
        /\ meta[key].ts = lastWrite[<<ns, key>>]

\* C2: upsert(d, ns, t) called twice with the same arguments, from any state:
\* neither call fails, the second leaves the state the first left, and that
\* state holds one document for the id in ns, with d's content, and one
\* metadata record for it, with the timestamp t.
C2_UpsertTwice ==
    [][\A id \in Ids, body \in UpsertBodies, ns \in Namespaces, ts \in Timestamps :
          (last'.op = "upsert" /\ Upsert(Document(id, body), ns, ts)) =>
              LET key   == pre_process_id(id)
                  again == upsert(Store', Document(id, body), ns, ts)
              IN  /\ last'.res = "ok"
                  /\ again.res = "ok"
                  /\ again.st = Store'
                  /\ key \in KeysOf(collections', ns)
                  /\ collections'[Target(ns)][key] = body
                  /\ RecordsFor(meta', key, ns) = {[key |-> key, ns |-> ns, ts |-> ts]}
      ]_vars

\* C3: for a document present under an id, update with a $set patch stores
\* the previous fields plus the set ones (a set field takes the new value)
\* and update with an $unset patch of fields the document has stores the
\* previous fields minus the unset ones; the document keeps its key, one
\* document and one metadata record exist for the id afterwards, and the
\* record carries the update's timestamp.
Applicable(previous, update_spec) ==
    "$unset" \in DOMAIN update_spec =>
        DOMAIN update_spec["$unset"] \subseteq DOMAIN previous

ExpectedAfter(previous, update_spec) ==
    IF "$set" \in DOMAIN update_spec
    THEN [f \in DOMAIN previous \cup DOMAIN update_spec["$set"] |->
             IF f \in DOMAIN update_spec["$set"] THEN update_spec["$set"][f]
             ELSE previous[f]]
    ELSE [f \in DOMAIN previous \ DOMAIN update_spec["$unset"] |-> previous[f]]

C3_UpdateSetUnset ==
    [][\A id \in Ids, spec \in {SetCity, SetCityAgain, UnsetCity},
          ns \in Namespaces, ts \in Timestamps :
          LET key == pre_process_id(id)
          IN  (/\ last'.op = "update"
               /\ key \in KeysOf(collections, ns)
               /\ Applicable(collections[Target(ns)][key], spec)
               /\ Update(id, spec, ns, ts)) =>
                  /\ key \in KeysOf(collections', ns)
                  /\ collections'[Target(ns)][key]
                        = ExpectedAfter(collections[Target(ns)][key], spec)
                  /\ RecordsFor(meta', key, ns) = {[key |-> key, ns |-> ns, ts |-> ts]}
      ]_vars

\* C4: bulk_upsert of n documents with pairwise distinct ids into an empty
\* collection, under any chunk size, leaves n documents in the collection and
\* n metadata records for them, each with the call's namespace and timestamp.
DistinctIds(docs) ==
    \A i \in 1..Len(docs), j \in 1..Len(docs) : i # j => docs[i].id # docs[j].id

C4_BulkLoadComplete ==
    [][\A docs \in DocumentSeqs(BulkIds), ns \in Namespaces, ts \in Timestamps :
          (/\ last'.op = "bulk_upsert"
           /\ KeysOf(collections, ns) = {}
           /\ DistinctIds(docs)
           /\ BulkUpsert(docs, ns, ts)) =>
              /\ Cardinality(KeysOf(collections', ns)) = Len(docs)
              /\ Cardinality({r \in MetaRecords(meta') :
                                 /\ r.key \in KeysOf(collections', ns)
                                 /\ r.ns = ns
                                 /\ r.ts = ts}) = Len(docs)
      ]_vars

\* C5: after remove(id, ns, t) has completed for an id whose document is in
\* ns, neither the document nor the metadata record of its key is
\* retrievable, and the documents and metadata records of the other keys are
\* what they were.
OtherKeysUnchanged(key) ==
    /\ DOMAIN collections' = DOMAIN collections
    /\ \A target \in DOMAIN collections :
          /\ DOMAIN collections'[target] \ {key} = DOMAIN collections[target] \ {key}
          /\ \A k \in DOMAIN collections[target] \ {key} :
                collections'[target][k] = collections[target][k]
    /\ DOMAIN meta' \ {key} = DOMAIN meta \ {key}
    /\ \A k \in DOMAIN meta \ {key} : meta'[k] = meta[k]

C6_RemoveMissing ==
    [][\A id \in Ids, ns \in Namespaces, ts \in Timestamps :
          LET key == pre_process_id(id)
          IN  (/\ last'.op = "remove"
               /\ (key \notin DOMAIN meta \/ key \notin KeysOf(collections, ns))
               /\ Remove(id, ns, ts)) =>
                  /\ last'.res = "ok"
                  /\ key \notin DOMAIN meta'
                  /\ key \notin KeysOf(collections', ns)
                  /\ OtherKeysUnchanged(key)
      ]_vars

\* C7: search(start, end) yields exactly the metadata records with
\* start <= ts <= end, of every namespace, whatever the size of the index,
\* and changes neither store.
C7_SearchExact ==
    [][\A start_ts \in Timestamps, end_ts \in Timestamps :
          (last'.op = "search" /\ Search(start_ts, end_ts)) =>
              /\ out' = {r \in MetaRecords(meta) : start_ts <= r.ts /\ r.ts <= end_ts}
              /\ UNCHANGED <<databases, collections, meta>>
      ]_vars

\* C8: get_last_doc returns None on an empty index and otherwise a record
\* whose timestamp is the largest of the index; an upsert whose timestamp
\* exceeds every timestamp of the index (upserts with strictly increasing
\* timestamps) makes get_last_doc return the record of that upsert, and when
\* it re-targets an id that is there it adds neither a record nor a document.
C8_CheckpointMonotonic ==
    [][/\ (last'.op = "get_last_doc" /\ GetLastDoc) =>
              /\ meta = <<>> => out' = {}
              /\ meta # <<>> =>
                    \E r \in MetaRecords(meta) :
                        /\ out' = {r}
                        /\ \A k \in DOMAIN meta : meta[k].ts <= r.ts
       /\ \A id \in Ids, body \in UpsertBodies, ns \in Namespaces, ts \in Timestamps :
              LET key == pre_process_id(id)
              IN  (/\ last'.op = "upsert"
                   /\ \A k \in DOMAIN meta : meta[k].ts < ts
                   /\ Upsert(Document(id, body), ns, ts)) =>
                      /\ get_last_doc(Store') = {{[key |-> key, ns |-> ns, ts |-> ts]}}
                      /\ key \in DOMAIN meta =>
                            Cardinality(DOMAIN meta') = Cardinality(DOMAIN meta)
                      /\ key \in KeysOf(collections, ns) =>
                            Cardinality(KeysOf(collections', ns))
                               = Cardinality(KeysOf(collections, ns))
      ]_vars

\* C9: pre_process_id returns the string form of the id unchanged when it
\* contains '.', and followed by exactly one '.' otherwise; so every key
\* contains a '.', the same id always gives the same key, and encoding an
\* encoded key returns it unchanged.
C9_EncodeShape ==
    last.op = "pre_process_id" =>
        LET s == Str(last.ids[1])
            k == out[1]
        IN  /\ Dot \in Range(s) => k = s
            /\ Dot \notin Range(s) => k = Append(s, Dot)
            /\ Dot \in Range(k)
            /\ pre_process_id(StrId(k)) = k
            /\ Str(last.ids[1]) = Str(last.ids[2]) => out[1] = out[2]

\* The encoder has been applied to "111a" and to "1.a".
C9_Witness ==
    /\ last.op = "pre_process_id"
    /\ last.ids = <<StrId(<<"1", "1", "1", "a">>), StrId(<<"1", Dot, "a">>)>>
    /\ out = <<<<"1", "1", "1", "a", Dot>>, <<"1", Dot, "a">>>>

\* C10: two distinct source ids get two distinct keys, so that upserting two
\* documents with distinct ids into one namespace leaves two documents and
\* two metadata records.
SameId(a, b) == a.tag = b.tag /\ a = b

C10_EncodeInjective ==
    (last.op = "pre_process_id" /\ ~SameId(last.ids[1], last.ids[2])) =>
        LET first  == upsert(EmptyStore, Document(last.ids[1], John), NsX, 1)
            second == upsert(first.st, Document(last.ids[2], John), NsX, 2)
        IN  /\ out[1] # out[2]
            /\ second.res = "ok"
            /\ Cardinality(KeysOf(second.st.colls, NsX)) = 2
            /\ Cardinality(DOMAIN second.st.meta) = 2

\* C12: update(id, patch, ns, t) for an id whose document is not in the
\* target collection of ns returns without raising, creates no document and
\* leaves every document collection as it was.
C12_UpdateMissingDocument ==
    [][\A id \in Ids, spec \in UpdateSpecs, ns \in Namespaces, ts \in Timestamps :
          (/\ last'.op = "update"
           /\ pre_process_id(id) \notin KeysOf(collections, ns)
           /\ Update(id, spec, ns, ts)) =>
              /\ last'.res = "ok"
              /\ collections' = collections
      ]_vars

\* The documents of each namespace, a namespace without a collection holding
\* none.
DocsOf(colls) ==
    [ns \in Namespaces |-> IF Target(ns) \in DOMAIN colls THEN colls[Target(ns)] ELSE <<>>]

\* upsert(d, ns, t) called for each document of the sequence in order:
\* the store the calls leave, and "ok" when none of them raised.
RECURSIVE upsert_each(_, _, _, _, _)
upsert_each(o, docs, namespace, timestamp, k) ==
    IF k > Len(docs) THEN o
    ELSE LET u == upsert(o.st, docs[k], namespace, timestamp)
         IN  upsert_each(Outcome(u.st, IF u.res = "ok" THEN o.res ELSE u.res),
                         docs, namespace, timestamp, k + 1)

\* C18: from any state, bulk_upsert(docs, ns, t) leaves the documents and the
\* Metadata Index that upsert(d, ns, t), called for each document in order,
\* leaves; a key that is already there is replaced by both and is an error
\* for neither.
C18_BulkEqualsUpserts ==
    [][\A docs \in DocumentSeqs(BulkIds), ns \in Namespaces, ts \in Timestamps :
          (last'.op = "bulk_upsert" /\ BulkUpsert(docs, ns, ts)) =>
              LET each == upsert_each(Outcome(Store, "ok"), docs, ns, ts, 1)
              IN  /\ last'.res = "ok"
                  /\ each.res = "ok"
                  /\ DocsOf(each.st.colls) = DocsOf(collections')
                  /\ each.st.meta = meta'
      ]_vars

\* The id is replicated in namespace: its document is there and the metadata
\* record of its key names the namespace.
Replicated(key, namespace) ==
    /\ key \in KeysOf(collections, namespace)
    /\ key \in DOMAIN meta
    /\ meta[key].ns = namespace

\* The document and the metadata record of (key, namespace) are what they
\* were.
SameInNamespace(key, namespace) ==
    /\ key \in KeysOf(collections', namespace)
    /\ collections'[Target(namespace)][key] = collections[Target(namespace)][key]
    /\ MetaRecord(meta, key) \in MetaRecords(meta')

\* C19: an upsert, update, bulk_upsert or remove of an id in ns1 succeeds
\* whatever the same id has in another namespace ns2, and leaves the document
\* and the metadata record the id has in ns2 as they were; after an upsert or
\* a bulk_upsert the id has one metadata record in each of the two namespaces.
C19_CompositeMetadataKey ==
    [][\A id \in Ids, ns1 \in Namespaces, ts \in Timestamps :
       \A ns2 \in Namespaces \ {ns1} :
          LET key == pre_process_id(id)
              written == /\ SameInNamespace(key, ns2)
                         /\ Cardinality(RecordsFor(meta', key, ns1)) = 1
                         /\ Cardinality(RecordsFor(meta', key, ns2)) = 1
          IN  Replicated(key, ns2) =>
                /\ \A body \in UpsertBodies :
                      (last'.op = "upsert" /\ Upsert(Document(id, body), ns1, ts)) =>
                          last'.res = "ok" /\ written
                /\ \A docs \in BulkInputs :
                      (/\ last'.op = "bulk_upsert"
                       /\ \E k \in 1..Len(docs) : docs[k].id = id
                       /\ BulkUpsert(docs, ns1, ts)) =>
                          last'.res = "ok" /\ written
                /\ \A spec \in UpdateSpecs :
                      (/\ last'.op = "update"
                       /\ key \in KeysOf(collections, ns1)
                       /\ Applicable(collections[Target(ns1)][key], spec)
                       /\ Update(id, spec, ns1, ts)) =>
                          last'.res = "ok" /\ SameInNamespace(key, ns2)
                /\ (/\ last'.op = "remove"
                    /\ key \in KeysOf(collections, ns1)
                    /\ Remove(id, ns1, ts)) =>
                          last'.res = "ok" /\ SameInNamespace(key, ns2)
      ]_vars

(***************************************************************************)
(* Calls on two keys, in either order.  The calls build the store; what    *)
(* they return is not recorded.                                            *)
(***************************************************************************)
\* A call of upsert, update or remove with its arguments.
UpsertCalls ==
    {[kind |-> "upsert", id |-> id, arg |-> body, ns |-> ns, ts |-> ts] :
        id \in Ids, body \in UpsertBodies, ns \in Namespaces, ts \in Timestamps}
UpdateCalls ==
    {[kind |-> "update", id |-> id, arg |-> spec, ns |-> ns, ts |-> ts] :
        id \in Ids, spec \in UpdateSpecs, ns \in Namespaces, ts \in Timestamps}
RemoveCalls ==
    {[kind |-> "remove", id |-> id, arg |-> <<>>, ns |-> ns, ts |-> ts] :
        id \in Ids, ns \in Namespaces, ts \in Timestamps}

\* The TargetKey a call addresses.
KeyOf(call) == pre_process_id(call.id)

\* The outcomes of a call on a store.
Run(st, call) ==
    CASE call.kind = "upsert" -> {upsert(st, Document(call.id, call.arg), call.ns, call.ts)}
      [] call.kind = "update" -> update(st, call.id, call.arg, call.ns, call.ts)
      [] call.kind = "remove" -> {remove(st, call.id, call.ns, call.ts)}

Called(calls) ==
    \E call \in calls : \E o \in Run(Store, call) :
        /\ Apply(o)
        /\ UNCHANGED <<chunk_size, last, out, lastWrite>>

NextPair == Called(UpsertCalls) \/ Called(UpdateCalls) \/ Called(RemoveCalls)

SpecPair == Init /\ [][NextPair]_vars

\* The stores that first, then second, can leave.
InOrder(st, first, second) ==
    UNION {{o2.st : o2 \in Run(o1.st, second)} : o1 \in Run(st, first)}

\* What a store holds under a key: its metadata record and its document in
\* each collection.
UnderKey(st, key) ==
    [record |-> IF key \in DOMAIN st.meta THEN {st.meta[key]} ELSE {},
     docs   |-> {<<target, st.colls[target][key]>> :
                    target \in {t \in DOMAIN st.colls : key \in DOMAIN st.colls[t]}}]

\* The TargetKeys of the calls, numbered, so that each pair of calls is taken
\* once.
CallKeys == {pre_process_id(id) : id \in Ids}
KeyNumber ==
    CHOOSE f \in [CallKeys -> 1..Cardinality(CallKeys)] :
        \A k1 \in CallKeys, k2 \in CallKeys : k1 # k2 => f[k1] # f[k2]

\* C20: two calls among upsert, update and remove that address different
\* TargetKeys leave, in either order from the same state, the same document
\* store and the same Metadata Index, and neither changes the document or the
\* metadata record of the other's key.
C20_KeysIndependent ==
    \A first \in UpsertCalls \cup UpdateCalls \cup RemoveCalls :
        /\ \A key \in CallKeys \ {KeyOf(first)} :
              \A o \in Run(Store, first) : UnderKey(o.st, key) = UnderKey(Store, key)
        /\ \A second \in UpsertCalls \cup UpdateCalls \cup RemoveCalls :
              KeyNumber[KeyOf(first)] < KeyNumber[KeyOf(second)] =>
                  InOrder(Store, first, second) = InOrder(Store, second, first)

\* Both keys have a document and a metadata record.
C20_Witness ==
    /\ Cardinality(DOMAIN meta) = 2
    /\ \E ns \in Namespaces : Cardinality(KeysOf(collections, ns)) = 2

(***************************************************************************)
(* Namespace commands.  command_helper is the Namespace-Mapping            *)
(* collaborator (mongo_connector.command_helper.CommandHelper); mapped is  *)
(* the set of namespaces it has a mapping for, each mapped to itself.      *)
(***************************************************************************)
\* Python's None, as the mapping methods return it; no namespace is empty.
None == <<>>

Join(db, coll) == db \o <<Dot>> \o coll

\* CommandHelper.map_namespace
map_namespace(mapped, ns) == IF ns \in mapped THEN ns ELSE None

\* CommandHelper.map_db: the target databases of a source database.
map_db(mapped, db) ==
    IF \E ns \in mapped : _db_and_collection(ns)[1] = db THEN <<db>> ELSE <<>>

\* CommandHelper.map_collection
map_collection(mapped, db, coll) ==
    LET ns == map_namespace(mapped, Join(db, coll))
    IN  IF ns # None THEN _db_and_collection(ns) ELSE <<None, None>>

\* arango.delete_database(name): the database goes with its collections; a
\* database the server does not have raises DatabaseDeleteError.
delete_database(st, db) ==
    IF db \notin st.dbs THEN Outcome(st, "DatabaseDeleteError")
    ELSE Outcome([st EXCEPT !.dbs = @ \ {db},
                            !.colls = [t \in {u \in DOMAIN @ : u[1] # db} |-> @[t]]],
                 "ok")

\* collection.rename(new_name): the collection keeps its database and its
\* documents; a missing collection or a taken name raises CollectionRenameError.
rename(st, db, coll, new_name) ==
    IF <<db, coll>> \notin DOMAIN st.colls \/ <<db, new_name>> \in DOMAIN st.colls
    THEN Outcome(st, "CollectionRenameError")
    ELSE Outcome([st EXCEPT !.colls =
                     [t \in (DOMAIN @ \ {<<db, coll>>}) \cup {<<db, new_name>>} |->
                         IF t = <<db, new_name>> THEN @[<<db, coll>>] ELSE @[t]]],
                 "ok")

\* database.delete_collection(name): a collection (or a database) the server
\* does not have raises CollectionDeleteError.
delete_collection(st, db, coll) ==
    IF <<db, coll>> \notin DOMAIN st.colls THEN Outcome(st, "CollectionDeleteError")
    ELSE Outcome([st EXCEPT !.colls = [t \in DOMAIN @ \ {<<db, coll>>} |-> @[t]]], "ok")

\* The command documents: {"dropDatabase": 1}, {"renameCollection": ns,
\* "to": ns}, {"create": coll} and {"drop": coll}.
Command(kind, name, to) == [kind |-> kind, name |-> name, to |-> to]

\* DocManager.handle_command, for a document with one command.
\* _db_and_collection(None) is None.split('.', 1): an AttributeError.
handle_command(st, doc, namespace, mapped) ==
    LET db == _db_and_collection(namespace)[1]
    IN  CASE doc.kind = "dropDatabase" ->
               IF map_db(mapped, db) = <<>> THEN Outcome(st, "ok")
               ELSE delete_database(st, map_db(mapped, db)[1])
          [] doc.kind = "renameCollection" ->
               LET source_namespace == map_namespace(mapped, doc.name)
                   target_namespace == map_namespace(mapped, doc.to)
               IN  IF source_namespace = None \/ target_namespace = None
                   THEN Outcome(st, "AttributeError")
                   ELSE rename(st, _db_and_collection(source_namespace)[1],
                               _db_and_collection(source_namespace)[2],
                               _db_and_collection(target_namespace)[2])
          [] doc.kind = "create" ->
               LET new == map_collection(mapped, db, doc.name)
               IN  IF new[1] = None THEN Outcome(st, "ok")
                   ELSE Outcome(handle_command_create(st, db, new[2]), "ok")
          [] doc.kind = "drop" ->
               LET new == map_collection(mapped, db, doc.name)
               IN  delete_collection(st, new[1], new[2])

\* The command events of the database of the namespaces.
CmdNamespace == <<"d", Dot, "$cmd">>
CollectionNames == {_db_and_collection(ns)[2] : ns \in Namespaces}
Commands ==
    {Command("dropDatabase", None, None)}
        \cup {Command("renameCollection", from, to) : from \in Namespaces, to \in Namespaces}
        \cup {Command("create", coll, None) : coll \in CollectionNames}
        \cup {Command("drop", coll, None) : coll \in CollectionNames}

HandleCommand(doc, namespace, mapped) ==
    LET o == handle_command(Store, doc, namespace, mapped)
    IN  /\ Apply(o)
        /\ last' = [op |-> "handle_command", res |-> o.res]
        /\ out' = {}
        /\ UNCHANGED chunk_size

NextCmd ==
    \/ \E id \in Ids, body \in UpsertBodies, ns \in Namespaces, ts \in Timestamps :
          Upsert(Document(id, body), ns, ts) /\ UNCHANGED lastWrite
    \/ \E doc \in Commands, mapped \in SUBSET Namespaces :
          HandleCommand(doc, CmdNamespace, mapped) /\ UNCHANGED lastWrite

SpecCmd == Init /\ [][NextCmd]_vars

\* The collaborator has no mapping for the namespace of the command.
Unmapped(doc, namespace, mapped) ==
    LET db == _db_and_collection(namespace)[1]
    IN  CASE doc.kind = "dropDatabase"     -> map_db(mapped, db) = <<>>
          [] doc.kind = "renameCollection" -> map_namespace(mapped, doc.name) = None
          [] OTHER -> map_collection(mapped, db, doc.name)[1] = None

\* C13: for each of the four command kinds, handle_command is a silent no-op
\* when the collaborator has no mapping for the command's namespace: it
\* raises nothing and changes no database, collection, document or metadata
\* record.
C13_UnmappedCommandNoOp ==
    [][\A doc \in Commands, mapped \in SUBSET Namespaces :
          (/\ last'.op = "handle_command"
           /\ Unmapped(doc, CmdNamespace, mapped)
           /\ HandleCommand(doc, CmdNamespace, mapped)) =>
              /\ last'.res = "ok"
              /\ UNCHANGED <<databases, collections, meta>>
      ]_vars

(***************************************************************************)
(* Calls during which the store rejects one write.  python-arango raises   *)
(* DocumentInsertError from insert and from import_bulk,                   *)
(* DocumentReplaceError from replace and CollectionCreateError from        *)
(* create_collection; wrap_exceptions maps DocumentInsertError (and        *)
(* DatabaseCreateError) to OperationFailed and lets the others through.    *)
(* The call ends at the rejected write, with the writes before it kept.    *)
(***************************************************************************)
\* What the caller sees when the store rejects an insert or a replace.
insert_rejected  == "OperationFailed"
replace_rejected == "DocumentReplaceError"

\* handle_command({"create": coll}) with create_collection rejected: the
\* database is there, the collection is not.
create_rejected(st, namespace) ==
    LET target == Target(namespace)
    IN  IF check_if_collection_exists(st, target[1], target[2]) THEN {}
        ELSE {Outcome([st EXCEPT !.dbs = @ \cup {target[1]}], "CollectionCreateError")}

\* DocManager.upsert with the write named by step rejected: the outcomes, none
\* when the call does not get to that write.
UpsertSteps == {"create_collection", "meta", "doc"}

upsert_rejected(st, doc, namespace, timestamp, step) ==
    LET target == Target(namespace)
        st1    == handle_command_create(st, target[1], target[2])
        doc_id == pre_process_id(doc.id)
        found  == doc_id \in DOMAIN st1.meta /\ st1.meta[doc_id].ns = namespace
        m      == upsert_meta(st1, doc_id, namespace, timestamp)
    IN  CASE step = "create_collection" -> create_rejected(st, namespace)
          [] step = "meta" ->
               {Outcome(st1, IF found THEN replace_rejected ELSE insert_rejected)}
          [] step = "doc" ->
               IF m.res # "ok" THEN {}
               ELSE {Outcome(m.st, IF doc_id \in DOMAIN m.st.colls[target]
                                   THEN replace_rejected ELSE insert_rejected)}

\* DocManager.update with a write rejected: its own replace of the metadata
\* record, or a write of the upsert it calls.
UpdateSteps == {"update_meta", "meta", "doc"}

update_rejected(st, document_id, update_spec, namespace, timestamp, step) ==
    LET doc_id == pre_process_id(document_id)
        target == Target(namespace)
        found  == doc_id \in DOMAIN st.meta /\ st.meta[doc_id].ns = namespace
        st1    == update_meta(st, doc_id, namespace, timestamp)
    IN  IF step = "update_meta"
        THEN IF found THEN {Outcome(st, replace_rejected)} ELSE {}
        ELSE IF target \notin DOMAIN st1.colls \/ doc_id \notin DOMAIN st1.colls[target]
        THEN {}
        ELSE UNION {upsert_rejected(st1, Document(StrId(doc_id), u.doc),
                                    namespace, timestamp, step)
                       : u \in {v \in apply_update(st1.colls[target][doc_id], update_spec)
                                   : v.ok}}

\* DocManager.bulk_upsert with an import_bulk of chunk k rejected: the chunks
\* before k are imported, and the documents of chunk k when it is the import
\* of its metadata that is rejected.
BulkSteps == {"docs", "meta"}

bulk_upsert_rejected(st, docs, namespace, timestamp, size, k, step) ==
    LET target == Target(namespace)
        st1    == handle_command_create(st, target[1], target[2])
        chunks == iterate_chunks(docs, size)
        before == import_chunks(st1, SubSeq(chunks, 1, k - 1), namespace, timestamp, 1)
    IN  IF k \notin 1..Len(chunks) THEN {}
        ELSE IF step = "docs" THEN {Outcome(before, insert_rejected)}
        ELSE {Outcome([before EXCEPT !.colls[target] = import_docs(@, chunks[k])],
                      insert_rejected)}

UpsertRejected(doc, namespace, timestamp, step) ==
    \E o \in upsert_rejected(Store, doc, namespace, timestamp, step) :
        /\ Apply(o)
        /\ last' = [op |-> "upsert", res |-> o.res]
        /\ out' = {}
        /\ UNCHANGED chunk_size

UpdateRejected(document_id, update_spec, namespace, timestamp, step) ==
    \E o \in update_rejected(Store, document_id, update_spec, namespace, timestamp, step) :
        /\ Apply(o)
        /\ last' = [op |-> "update", res |-> o.res]
        /\ out' = {}
        /\ UNCHANGED chunk_size

BulkUpsertRejected(docs, namespace, timestamp, k, step) ==
    \E o \in bulk_upsert_rejected(Store, docs, namespace, timestamp, chunk_size, k, step) :
        /\ Apply(o)
        /\ last' = [op |-> "bulk_upsert", res |-> o.res]
        /\ out' = {}
        /\ UNCHANGED chunk_size

NextFault ==
    \/ \E id \in Ids, body \in UpsertBodies, ns \in Namespaces, ts \in Timestamps :
          Upsert(Document(id, body), ns, ts) /\ UNCHANGED lastWrite
    \/ \E docs \in BulkInputs, ns \in Namespaces, ts \in Timestamps :
          BulkUpsert(docs, ns, ts) /\ UNCHANGED lastWrite
    \/ \E id \in Ids, body \in UpsertBodies, ns \in Namespaces, ts \in Timestamps,
          step \in UpsertSteps :
          UpsertRejected(Document(id, body), ns, ts, step) /\ UNCHANGED lastWrite
    \/ \E id \in Ids, spec \in UpdateSpecs, ns \in Namespaces, ts \in Timestamps,
          step \in UpdateSteps :
          UpdateRejected(id, spec, ns, ts, step) /\ UNCHANGED lastWrite
    \/ \E docs \in BulkInputs, ns \in Namespaces, ts \in Timestamps,
          k \in 1..MaxBulk, step \in BulkSteps :
          BulkUpsertRejected(docs, ns, ts, k, step) /\ UNCHANGED lastWrite

SpecFault == InitBulk /\ [][NextFault]_vars

\* C11: a rejection by the store of an insert, a replace or a bulk import,
\* of the metadata or of the document, in upsert, update or bulk_upsert,
\* reaches the caller as OperationFailed, and the rejected write is not tried
\* again: the store does not hold it when the call ends.
C11_RejectionsWrapped ==
    [][\A ns \in Namespaces, ts \in Timestamps :
          /\ \A id \in Ids, body \in UpsertBodies, step \in {"meta", "doc"} :
                UpsertRejected(Document(id, body), ns, ts, step) =>
                    /\ last'.res = "OperationFailed"
                    /\ step = "meta" => meta' = meta
                    /\ DocsOf(collections') = DocsOf(collections)
          /\ \A id \in Ids, spec \in UpdateSpecs, step \in UpdateSteps :
                UpdateRejected(id, spec, ns, ts, step) =>
                    /\ last'.res = "OperationFailed"
                    /\ step = "update_meta" => meta' = meta
                    /\ DocsOf(collections') = DocsOf(collections)
          /\ \A docs \in BulkInputs, k \in 1..MaxBulk, step \in BulkSteps :
                BulkUpsertRejected(docs, ns, ts, k, step) =>
                    last'.res = "OperationFailed"
      ]_vars

\* C15: when an upsert or a bulk_upsert has failed with a store error after
\* some of its writes, the same call issued again in full succeeds and leaves
\* the documents and the Metadata Index that the call leaves when it runs
\* uninterrupted and successfully from the state before the failed call.
C15_ReplayAfterFailure ==
    \A ns \in Namespaces, ts \in Timestamps :
        /\ \A id \in Ids, body \in UpsertBodies, step \in UpsertSteps :
              LET whole == upsert(Store, Document(id, body), ns, ts)
              IN  whole.res = "ok" =>
                    \A failed \in upsert_rejected(Store, Document(id, body), ns, ts, step) :
                        upsert(failed.st, Document(id, body), ns, ts) = whole
        /\ \A docs \in BulkInputs, k \in 1..MaxBulk, step \in BulkSteps :
              LET whole == bulk_upsert(Store, docs, ns, ts, chunk_size)
              IN  whole.res = "ok" =>
                    \A failed \in bulk_upsert_rejected(Store, docs, ns, ts, chunk_size, k, step) :
                        bulk_upsert(failed.st, docs, ns, ts, chunk_size) = whole

\* A call has failed between its metadata write and its document write: a
\* metadata record names a namespace that does not have the document.
C15_Witness ==
    /\ last.op = "upsert"
    /\ last.res # "ok"
    /\ \E key \in DOMAIN meta : key \notin KeysOf(collections, meta[key].ns)

\* The keys of the chunks from..to.
KeysOfChunks(chunks, from, to) == UNION {ChunkKeys(chunks[i]) : i \in from..to}

\* C16: when an import of chunk k is rejected, bulk_upsert ends with an
\* error, submits no chunk after k, and leaves the documents and metadata
\* records of the chunks before k as it wrote them; every document the call
\* has added then has its metadata record.
C16_BulkFailureKeepsChunks ==
    [][\A docs \in BulkInputs, ns \in Namespaces, ts \in Timestamps,
          k \in 1..MaxBulk, step \in BulkSteps :
          BulkUpsertRejected(docs, ns, ts, k, step) =>
              LET chunks == iterate_chunks(docs, chunk_size)
                  before == KeysOfChunks(chunks, 1, k - 1)
                  upto   == KeysOfChunks(chunks, 1, k)
                  after  == KeysOfChunks(chunks, k + 1, Len(chunks))
              IN  /\ last'.res # "ok"
                  /\ \A key \in after \ upto :
                        UnderKey(Store', key) = UnderKey(Store, key)
                  /\ \A key \in before \ ChunkKeys(chunks[k]) :
                        /\ key \in KeysOf(collections', ns)
                        /\ meta'[key] = [ns |-> ns, ts |-> ts]
                  /\ \A key \in KeysOf(collections', ns) \ KeysOf(collections, ns) :
                        /\ key \in DOMAIN meta'
                        /\ meta'[key] = [ns |-> ns, ts |-> ts]
      ]_vars

(***************************************************************************)
(* upsert, one store write at a time.  While a call runs, last holds its   *)
(* arguments, the number pc of its next write and, in before, the document *)
(* its key had in the target collection when it was called.  A call may be *)
(* stopped between two writes (the process dies); the writes it has made   *)
(* stay.                                                                   *)
(***************************************************************************)
\* The order of the store writes of upsert.
upsert_writes_document_first == <<"doc", "meta">>
upsert_writes == <<"meta", "doc">>

JohnInNewYork == [name |-> "John", city |-> "New York"]
StepBodies == {John, JohnInNewYork}
StepIds == {StrId(<<"a">>)}

\* The document stored under a key of a namespace, as a set: empty when
\* there is none.
StoredDoc(colls, namespace, key) ==
    IF DocPresent(colls, namespace, key) THEN {colls[Target(namespace)][key]} ELSE {}

\* The call is made: the collection is ensured (handle_command) and the
\* metadata write is next.
UpsertCall(doc, namespace, timestamp) ==
    /\ last.res # "running"
    /\ Apply(Outcome(handle_command_create(Store, Target(namespace)[1], Target(namespace)[2]),
                     "ok"))
    /\ last' = [op |-> "upsert", res |-> "running", pc |-> 1,
                doc |-> doc, ns |-> namespace, ts |-> timestamp,
                before |-> StoredDoc(collections, namespace, pre_process_id(doc.id))]
    /\ UNCHANGED <<chunk_size, out, lastWrite>>

\* The next write of the running call.
UpsertWrite ==
    /\ last.res = "running"
    /\ LET doc_id == pre_process_id(last.doc.id)
           o == IF upsert_writes[last.pc] = "meta"
                THEN upsert_meta(Store, doc_id, last.ns, last.ts)
                ELSE upsert_doc(Store, Target(last.ns), doc_id, last.doc.body)
       IN  /\ Apply(o)
           /\ last' = IF o.res # "ok" THEN [last EXCEPT !.res = o.res]
                      ELSE IF last.pc = Len(upsert_writes)
                           THEN [last EXCEPT !.res = "ok", !.pc = @ + 1]
                           ELSE [last EXCEPT !.pc = @ + 1]
    /\ UNCHANGED <<chunk_size, out, lastWrite>>

\* The running call is stopped before its next write.
UpsertStop ==
    /\ last.res = "running"
    /\ last' = [last EXCEPT !.res = "stopped"]
    /\ UNCHANGED <<databases, collections, meta, chunk_size, out, lastWrite>>

InitSteps ==
    /\ databases = {}
    /\ collections = <<>>
    /\ meta = <<>>
    /\ chunk_size = DEFAULT_MAX_BULK
    /\ last = [op |-> "none", res |-> "ok", pc |-> 0, doc |-> Document(StrId(<<"a">>), John),
               ns |-> NsX, ts |-> 1, before |-> {}]
    /\ out = {}
    /\ lastWrite = <<>>

NextSteps ==
    \/ \E id \in StepIds, body \in StepBodies, ns \in Namespaces, ts \in Timestamps :
          UpsertCall(Document(id, body), ns, ts)
    \/ UpsertWrite
    \/ UpsertStop

SpecSteps == InitSteps /\ [][NextSteps]_vars

\* The document of the call's key has the call's content.
HasCallContent ==
    StoredDoc(collections, last.ns, pre_process_id(last.doc.id)) = {last.doc.body}

\* The metadata record of the call's key is the call's.
HasCallRecord ==
    /\ pre_process_id(last.doc.id) \in DOMAIN meta
    /\ meta[pre_process_id(last.doc.id)] = [ns |-> last.ns, ts |-> last.ts]

\* C14 as stated: in every state of an upsert, stopped or not, if the document
\* stored under the key has the call's content then the metadata record of
\* the key exists and carries the call's timestamp.
C14_ContentImpliesRecord ==
    (last.op = "upsert" /\ HasCallContent) => HasCallRecord

\* C14, for a document the call has written: in every state of an upsert,
\* stopped or not, if the document stored under the key has the call's
\* content and did not have it when the call was made, then the metadata
\* record of the key exists and carries the call's timestamp (the metadata
\* write precedes the document write).
C14_MetadataBeforeDocument ==
    (last.op = "upsert" /\ HasCallContent /\ last.before # {last.doc.body}) => HasCallRecord

\* An upsert has replaced a document of another content.
C14_Witness ==
    /\ last.op = "upsert"
    /\ last.res = "ok"
    /\ HasCallContent
    /\ last.before # {}
    /\ last.before # {last.doc.body}

(***************************************************************************)
(* bulk_upsert, one pass of iterate_chunks at a time.                      *)
(***************************************************************************)
MaxDocs == 4

MaxPasses == 6

\* The batch sizes the constructor accepts: kwargs.get('chunk_size') is kept
\* as given, zero included.
ChunkSizes == 0..MaxChunk

\* One pass of "while more_chunks": range(size) pulls documents from pos on;
\* StopIteration ends the generator and yields the batch if i > 0; a for loop
\* that runs to its end (an empty range included) yields the batch and goes on.
while_pass(docs, pos, size) ==
    LET left == Len(docs) - pos + 1
        i    == IF left < size THEN left ELSE size
        bulk == SubSeq(docs, pos, pos + i - 1)
    IN  [bulk        |-> bulk,
         pos         |-> pos + i,
         more_chunks |-> left >= size,
         yields      |-> left >= size \/ i > 0]

\* bulk_upsert is called: handle_command ensures the collection, then the
\* generator is created.
BulkUpsertCall(docs, namespace, timestamp) ==
    LET target == Target(namespace)
        st1    == handle_command_create(Store, target[1], target[2])
    IN  /\ last.res # "running"
        /\ databases' = st1.dbs
        /\ collections' = st1.colls
        /\ meta' = st1.meta
        /\ last' = [op |-> "bulk_upsert", res |-> "running", docs |-> docs,
                    ns |-> namespace, ts |-> timestamp, pos |-> 1, passes |-> 0,
                    pulls |-> [k \in 1..Len(docs) |-> 0], ensured |-> 1]
        /\ out' = <<>>
        /\ UNCHANGED <<chunk_size, lastWrite>>

\* One pass of the while loop, with the two import_bulk calls of the for loop
\* of bulk_upsert when the pass yields a batch.
ChunkPass ==
    LET pass == while_pass(last.docs, last.pos, chunk_size)
        st1  == IF pass.yields
                THEN import_chunk(Store, pass.bulk, last.ns, last.ts)
                ELSE Store
    IN  /\ last.res = "running"
        /\ last.passes < MaxPasses
        /\ databases' = st1.dbs
        /\ collections' = st1.colls
        /\ meta' = st1.meta
        /\ out' = IF pass.yields THEN Append(out, pass.bulk) ELSE out
        /\ last' = [last EXCEPT !.res = IF pass.more_chunks THEN "running" ELSE "ok",
                                !.pos = pass.pos,
                                !.passes = @ + 1,
                                !.pulls = [k \in DOMAIN @ |->
                                             IF k \in last.pos..(pass.pos - 1)
                                             THEN @[k] + 1 ELSE @[k]]]
        /\ UNCHANGED <<chunk_size, lastWrite>>

InitChunks ==
    /\ databases = {}
    /\ collections = <<>>
    /\ meta = <<>>
    /\ chunk_size \in ChunkSizes
    /\ last = [op |-> "none", res |-> "ok", docs |-> <<>>, ns |-> NsX, ts |-> 1,
               pos |-> 1, passes |-> 0, pulls |-> <<>>, ensured |-> 0]
    /\ out = <<>>
    /\ lastWrite = <<>>

NextChunks ==
    \/ \E n \in 0..MaxDocs, ns \in Namespaces, ts \in Timestamps :
          BulkUpsertCall(Numbered(n), ns, ts)
    \/ ChunkPass

SpecChunks == InitChunks /\ [][NextChunks]_vars

RECURSIVE Concat(_, _)
Concat(chunks, k) ==
    IF k > Len(chunks) THEN <<>> ELSE chunks[k] \o Concat(chunks, k + 1)

\* ceil(n / size), for size >= 1.
CeilDiv(n, size) == (n + size - 1) \div size

\* The batches are full but for the last one of a finished call, none is
\* empty, and together they are the documents pulled so far, in order.
ChunksInOrder ==
    /\ \A k \in 1..Len(out) : Len(out[k]) \in 1..chunk_size
    /\ \A k \in 1..(Len(out) - 1) : Len(out[k]) = chunk_size
    /\ last.res = "running" => \A k \in 1..Len(out) : Len(out[k]) = chunk_size
    /\ Concat(out, 1) = SubSeq(last.docs, 1, last.pos - 1)

\* A finished call has pulled every document once and submitted
\* ceil(n / size) batches.
ChunksComplete ==
    last.res = "ok" =>
        /\ \A k \in DOMAIN last.pulls : last.pulls[k] = 1
        /\ Concat(out, 1) = last.docs
        /\ chunk_size >= 1 => Len(out) = CeilDiv(Len(last.docs), chunk_size)

\* C17: a bulk_upsert of n documents ends within n + 1 passes of its loop,
\* having pulled each document once; it submits the documents in order in
\* ceil(n / size) batches, each full but the last, none empty (none at all for
\* n = 0, no extra one when size divides n), and ensures the collection once,
\* before the first batch.
C17_ChunksExact ==
    last.op = "bulk_upsert" =>
        /\ last.passes <= Len(last.docs) + 1
        /\ \A k \in DOMAIN last.pulls : last.pulls[k] <= 1
        /\ ChunksInOrder
        /\ ChunksComplete
        /\ last.ensured = 1

(***************************************************************************)
(* The commands on the server that holds the metadata.  __init__ creates   *)
(* the database mongodb_meta and its collection mongodb_data on the server *)
(* of the target databases; here they are among databases and collections, *)
(* and meta is the content of the collection.                              *)
(***************************************************************************)
meta_database == <<"mongodb_meta">>

meta_collection == <<"mongodb_data">>

MetaTarget == <<meta_database, meta_collection>>

MetaNamespace == Join(meta_database, meta_collection)

ServerNamespaces == Namespaces \cup {MetaNamespace}

\* The command events of the two source databases.
CmdNamespaces == {CmdNamespace, <<"mongodb_meta", Dot, "$cmd">>}

ServerCommands ==
    {Command("dropDatabase", None, None)}
        \cup {Command("renameCollection", from, to) : from \in Namespaces, to \in Namespaces}
        \cup {Command("create", coll, None) : coll \in CollectionNames \cup {meta_collection}}
        \cup {Command("drop", coll, None) : coll \in CollectionNames \cup {meta_collection}}

\* The namespaces the command helper maps, each to itself: those of a
\* configured namespace set, or every namespace (no configuration).
Mappings == {Namespaces, ServerNamespaces}

\* The metadata collection is on the server.
meta_coll_exists(colls) == MetaTarget \in DOMAIN colls

\* The store of the calls, with the content of the metadata collection
\* written back to the server's collection.
OnServer(st) ==
    IF meta_coll_exists(st.colls) THEN [st EXCEPT !.colls[MetaTarget] = st.meta] ELSE st

\* The metadata records the server holds.
RecordsOnServer(colls) == IF meta_coll_exists(colls) THEN colls[MetaTarget] ELSE <<>>

ApplyOnServer(o) ==
    /\ databases' = o.st.dbs
    /\ collections' = OnServer(o.st).colls
    /\ meta' = RecordsOnServer(OnServer(o.st).colls)

\* upsert; without the metadata collection meta_coll.find raises after
\* handle_command has ensured the target collection.
ServerUpsert(doc, namespace, timestamp) ==
    LET target == Target(namespace)
        o == IF meta_coll_exists(collections)
             THEN upsert(Store, doc, namespace, timestamp)
             ELSE Outcome(handle_command_create(Store, target[1], target[2]),
                          "DocumentGetError")
    IN  /\ ApplyOnServer(o)
        /\ last' = [op |-> "upsert", res |-> o.res]
        /\ out' = {}
        /\ UNCHANGED <<chunk_size, lastWrite>>

\* remove; without the metadata collection meta_collection.delete raises.
ServerRemove(document_id, namespace, timestamp) ==
    LET o == IF meta_coll_exists(collections)
             THEN remove(Store, document_id, namespace, timestamp)
             ELSE Outcome(Store, "DocumentDeleteError")
    IN  /\ ApplyOnServer(o)
        /\ last' = [op |-> "remove", res |-> o.res]
        /\ out' = {}
        /\ UNCHANGED <<chunk_size, lastWrite>>

\* handle_command: the records are those of the collection mongodb_data of
\* the database mongodb_meta after the command.
ServerCommand(doc, namespace, mapped) ==
    LET o == handle_command(Store, doc, namespace, mapped)
    IN  /\ databases' = o.st.dbs
        /\ collections' = o.st.colls
        /\ meta' = RecordsOnServer(o.st.colls)
        /\ last' = [op |-> "handle_command", res |-> o.res]
        /\ out' = {}
        /\ UNCHANGED <<chunk_size, lastWrite>>

\* search; without the metadata collection find_in_range raises.
ServerSearch(start_ts, end_ts) ==
    IF meta_coll_exists(collections)
    THEN Search(start_ts, end_ts) /\ UNCHANGED lastWrite
    ELSE /\ last' = [op |-> "search", res |-> "DocumentGetError"]
         /\ out' = {}
         /\ UNCHANGED <<databases, collections, meta, chunk_size, lastWrite>>

\* get_last_doc; without the metadata collection the query raises.
ServerGetLastDoc ==
    IF meta_coll_exists(collections)
    THEN GetLastDoc /\ UNCHANGED lastWrite
    ELSE /\ last' = [op |-> "get_last_doc", res |-> "AQLQueryExecuteError"]
         /\ out' = {}
         /\ UNCHANGED <<databases, collections, meta, chunk_size, lastWrite>>

\* The state after __init__ on a fresh server.
InitServer ==
    /\ databases = {meta_database}
    /\ collections = [t \in {MetaTarget} |-> <<>>]
    /\ meta = <<>>
    /\ chunk_size = DEFAULT_MAX_BULK
    /\ last = [op |-> "none", res |-> "ok"]
    /\ out = {}
    /\ lastWrite = <<>>

NextServer ==
    \/ \E id \in Ids, body \in UpsertBodies, ns \in Namespaces, ts \in Timestamps :
          ServerUpsert(Document(id, body), ns, ts)
    \/ \E id \in Ids, ns \in Namespaces, ts \in Timestamps :
          ServerRemove(id, ns, ts)
    \/ \E doc \in ServerCommands, namespace \in CmdNamespaces, mapped \in Mappings :
          ServerCommand(doc, namespace, mapped)
    \/ \E start_ts \in Timestamps, end_ts \in Timestamps :
          ServerSearch(start_ts, end_ts)
    \/ ServerGetLastDoc

SpecServer == InitServer /\ [][NextServer]_vars

\* C23: the namespace commands never touch the Metadata Index: a
\* drop-database, drop-collection, rename-collection or create-collection
\* leaves every metadata record unchanged, so search and get_last_doc return
\* after it what they returned before it (the records of dropped documents
\* included, the records of renamed documents naming the old namespace); and
\* only remove destroys a metadata record.
C23_CommandsKeepMetadata ==
    [][/\ last'.op = "handle_command" =>
            /\ meta' = meta
            /\ meta_coll_exists(collections) => meta_coll_exists(collections')
            /\ \A start_ts \in Timestamps, end_ts \in Timestamps :
                  search(Store', start_ts, end_ts) = search(Store, start_ts, end_ts)
            /\ get_last_doc(Store') = get_last_doc(Store)
       /\ (\E key \in DOMAIN meta : key \notin DOMAIN meta') => last'.op = "remove"
      ]_vars

(***************************************************************************)
(* Two callers in handle_command's create branch, one server request at a  *)
(* time.  last[p] is the call of caller p: the operation it came through,  *)
(* its namespace, the request it makes next and how it ended.              *)
(***************************************************************************)
Callers == {"A", "B"}

\* upsert and bulk_upsert call handle_command({"create": coll}); the tailer
\* calls it for a create event.
CreatePaths == {"upsert", "bulk_upsert", "handle_command"}

\* arango.create_database(name) on a server that has the database raises
\* DatabaseCreateError, which wrap_exceptions turns into OperationFailed.
create_database_rejected == "OperationFailed"

\* database.create_collection(name) on a database that has the collection
\* raises CollectionCreateError, which wrap_exceptions lets through.
create_collection_rejected == "CollectionCreateError"

\* A caller enters the create branch.
EnsureCall(p, op, namespace) ==
    /\ last[p].pc \in {"done", "failed"}
    /\ last' = [last EXCEPT ![p] = [op |-> op, ns |-> namespace,
                                    pc |-> "check_database", res |-> "running"]]
    /\ UNCHANGED <<databases, collections, meta, chunk_size, out, lastWrite>>

\* db_response = self.check_if_database_exists(new_db)
CheckDatabase(p) ==
    /\ last[p].pc = "check_database"
    /\ last' = [last EXCEPT ![p].pc =
                  IF check_if_database_exists(Store, Target(last[p].ns)[1])
                  THEN "check_collection" ELSE "create_database"]
    /\ UNCHANGED <<databases, collections, meta, chunk_size, out, lastWrite>>

\* new_db = self.arango.create_database(db)
CreateDatabase(p) ==
    LET db == Target(last[p].ns)[1]
    IN  /\ last[p].pc = "create_database"
        /\ IF db \in databases
           THEN /\ last' = [last EXCEPT ![p].pc = "failed",
                                        ![p].res = create_database_rejected]
                /\ UNCHANGED databases
           ELSE /\ last' = [last EXCEPT ![p].pc = "check_collection"]
                /\ databases' = databases \cup {db}
        /\ UNCHANGED <<collections, meta, chunk_size, out, lastWrite>>

\* coll_response = self.check_if_collection_exists(new_db, coll)
CheckCollection(p) ==
    LET target == Target(last[p].ns)
    IN  /\ last[p].pc = "check_collection"
        /\ last' = [last EXCEPT ![p].pc =
                      IF check_if_collection_exists(Store, target[1], target[2])
                      THEN "done" ELSE "create_collection",
                                ![p].res =
                      IF check_if_collection_exists(Store, target[1], target[2])
                      THEN "ok" ELSE "running"]
        /\ UNCHANGED <<databases, collections, meta, chunk_size, out, lastWrite>>

\* new_db.create_collection(coll)
CreateCollection(p) ==
    LET target == Target(last[p].ns)
    IN  /\ last[p].pc = "create_collection"
        /\ IF target \in DOMAIN collections
           THEN /\ last' = [last EXCEPT ![p].pc = "failed",
                                        ![p].res = create_collection_rejected]
                /\ UNCHANGED collections
           ELSE /\ last' = [last EXCEPT ![p].pc = "done", ![p].res = "ok"]
                /\ collections' = With(collections, target, <<>>)
        /\ UNCHANGED <<databases, meta, chunk_size, out, lastWrite>>

InitRace ==
    /\ databases = {}
    /\ collections = <<>>
    /\ meta = <<>>
    /\ chunk_size = DEFAULT_MAX_BULK
    /\ last = [p \in Callers |-> [op |-> "none", ns |-> NsX, pc |-> "done", res |-> "ok"]]
    /\ out = {}
    /\ lastWrite = <<>>

NextRace ==
    \/ \E p \in Callers, op \in CreatePaths, ns \in Namespaces : EnsureCall(p, op, ns)
    \/ \E p \in Callers : CheckDatabase(p)
    \/ \E p \in Callers : CreateDatabase(p)
    \/ \E p \in Callers : CheckCollection(p)
    \/ \E p \in Callers : CreateCollection(p)

SpecRace == InitRace /\ [][NextRace]_vars

\* C21: when two callers ensure the same absent database or collection
\* concurrently, through upsert, bulk_upsert or a create command, then
\* whatever the order of their existence checks and create calls no caller
\* surfaces an error, and a caller that is through has its database and its
\* collection on the server.
C21_CreationRaceTolerated ==
    \A p \in Callers :
        /\ last[p].res \in {"running", "ok"}
        /\ (last[p].op # "none" /\ last[p].pc = "done") =>
              /\ Target(last[p].ns)[1] \in databases
              /\ Target(last[p].ns) \in DOMAIN collections

(***************************************************************************)
(* Two callers in upsert, one store request at a time.  last[p] is the     *)
(* call of caller p: its arguments, the request it makes next, what its    *)
(* latest read found and how it ended.                                     *)
(***************************************************************************)
\* meta_collection.find({"_key": doc_id, "ns": namespace}).count()
meta_find(m, doc_id, namespace) == doc_id \in DOMAIN m /\ m[doc_id].ns = namespace

\* collection.replace(document): the document of the _key is replaced; without
\* one the store raises DocumentReplaceError.
store_replace(coll, key, value) ==
    IF key \in DOMAIN coll THEN [coll |-> With(coll, key, value), res |-> "ok"]
    ELSE [coll |-> coll, res |-> replace_rejected]

\* collection.insert(document): the document is stored under its _key; with
\* one there already the store raises DocumentInsertError (unique constraint),
\* which wrap_exceptions turns into OperationFailed.
store_insert(coll, key, value) ==
    IF key \notin DOMAIN coll THEN [coll |-> With(coll, key, value), res |-> "ok"]
    ELSE [coll |-> coll, res |-> insert_rejected]

\* The request after a read: replace when the read found the key, insert
\* otherwise.
store_write(coll, key, value, found) ==
    IF found THEN store_replace(coll, key, value) ELSE store_insert(coll, key, value)

\* upsert is called: handle_command ensures the collection.
UpsertBegin(p, doc, namespace, timestamp) ==
    /\ last[p].pc \in {"done", "failed"}
    /\ Apply(Outcome(handle_command_create(Store, Target(namespace)[1], Target(namespace)[2]),
                     "ok"))
    /\ last' = [last EXCEPT ![p] = [op |-> "upsert", doc |-> doc, ns |-> namespace,
                                    ts |-> timestamp, pc |-> "find_meta",
                                    found |-> FALSE, res |-> "running"]]
    /\ UNCHANGED <<chunk_size, out, lastWrite>>

\* meta_cursor = meta_collection.find(...)
FindMeta(p) ==
    /\ last[p].pc = "find_meta"
    /\ last' = [last EXCEPT ![p].pc = "write_meta",
                            ![p].found = meta_find(meta, pre_process_id(last[p].doc.id),
                                                   last[p].ns)]
    /\ UNCHANGED <<databases, collections, meta, chunk_size, out, lastWrite>>

\* meta_collection.replace(meta) or meta_collection.insert(meta)
WriteMeta(p) ==
    LET w == store_write(meta, pre_process_id(last[p].doc.id),
                         [ns |-> last[p].ns, ts |-> last[p].ts], last[p].found)
    IN  /\ last[p].pc = "write_meta"
        /\ meta' = w.coll
        /\ last' = IF w.res = "ok" THEN [last EXCEPT ![p].pc = "has_doc"]
                   ELSE [last EXCEPT ![p].pc = "failed", ![p].res = w.res]
        /\ UNCHANGED <<databases, collections, chunk_size, out, lastWrite>>

\* coll.has(doc_id)
HasDoc(p) ==
    /\ last[p].pc = "has_doc"
    /\ last' = [last EXCEPT ![p].pc = "write_doc",
                            ![p].found = DocPresent(collections, last[p].ns,
                                                    pre_process_id(last[p].doc.id))]
    /\ UNCHANGED <<databases, collections, meta, chunk_size, out, lastWrite>>

\* coll.replace(doc) or coll.insert(doc)
WriteDoc(p) ==
    LET target == Target(last[p].ns)
        w == store_write(collections[target], pre_process_id(last[p].doc.id),
                         last[p].doc.body, last[p].found)
    IN  /\ last[p].pc = "write_doc"
        /\ collections' = [collections EXCEPT ![target] = w.coll]
        /\ last' = IF w.res = "ok" THEN [last EXCEPT ![p].pc = "done", ![p].res = "ok"]
                   ELSE [last EXCEPT ![p].pc = "failed", ![p].res = w.res]
        /\ UNCHANGED <<databases, meta, chunk_size, out, lastWrite>>

InitUpserts ==
    /\ databases = {}
    /\ collections = <<>>
    /\ meta = <<>>
    /\ chunk_size = DEFAULT_MAX_BULK
    /\ last = [p \in Callers |->
                 [op |-> "none", doc |-> Document(StrId(<<"a">>), John), ns |-> NsX,
                  ts |-> 1, pc |-> "done", found |-> FALSE, res |-> "ok"]]
    /\ out = {}
    /\ lastWrite = <<>>

NextUpserts ==
    \/ \E p \in Callers, id \in StepIds, body \in StepBodies, ts \in Timestamps :
          UpsertBegin(p, Document(id, body), NsX, ts)
    \/ \E p \in Callers : FindMeta(p)
    \/ \E p \in Callers : WriteMeta(p)
    \/ \E p \in Callers : HasDoc(p)
    \/ \E p \in Callers : WriteDoc(p)

SpecUpserts == InitUpserts /\ [][NextUpserts]_vars

\* The latest calls of the two callers are upserts of one id in one namespace
\* with different contents and timestamps.
SameKeyUpserts ==
    /\ \A p \in Callers : last[p].op = "upsert"
    /\ last["A"].doc.id = last["B"].doc.id
    /\ last["A"].ns = last["B"].ns
    /\ last["A"].doc.body # last["B"].doc.body
    /\ last["A"].ts # last["B"].ts

\* The document and the metadata record of the key are those of the call.
LandedLast(p) ==
    /\ StoredDoc(collections, last[p].ns, pre_process_id(last[p].doc.id)) = {last[p].doc.body}
    /\ meta_find(meta, pre_process_id(last[p].doc.id), last[p].ns)
    /\ meta[pre_process_id(last[p].doc.id)].ts = last[p].ts

\* C22: when two upserts of one id and namespace with different contents and
\* timestamps have their store reads and writes interleaved, in whatever
\* way, neither ends with an error, and when both are through the stored
\* document is the content of one of the two and the metadata record
\* carries the timestamp of that same call.
C22_ConcurrentUpserts ==
    SameKeyUpserts =>
        /\ \A p \in Callers : last[p].res \in {"running", "ok"}
        /\ (\A p \in Callers : last[p].pc = "done") => \E p \in Callers : LandedLast(p)

=============================================================================
